---- MODULE Spec2Model ----
(***************************************************************************)
(* django-rest-interface: the generic Resource dispatcher                  *)
(* (django_restapi/resource.py) and the serializing responders             *)
(* (trunk/django_restapi/responder.py).                                    *)
(*                                                                         *)
(* One Resource object and the module-level responders are shared by the   *)
(* worker threads of the host framework.  Every thread runs one operation  *)
(* at a time: Resource.__call__ on a request of its own (stepwise, so that *)
(* calls interleave), or one of the responder methods element, list and    *)
(* error.                                                                  *)
(***************************************************************************)
EXTENDS Naturals, Sequences, FiniteSets, TLC

VARIABLES
    ctor,        \* the arguments Resource.__init__ was called with
    resource,    \* the Resource object: authentication, permitted_methods
    responders,  \* the responder objects: format, mimetype
    pc,          \* per thread: where its operation stands
    op,          \* per thread: the operation invoked, with its inputs
    request,     \* per thread: the (mutable) request object of its call
    result,      \* per thread: what the operation returned or raised
    trace        \* per thread: the calls the operation made, in order

vars == <<ctor, resource, responders, pc, op, request, result, trace>>

---------------------------------------------------------------------------
(* Bounds *)

MaxBody == 2     \* raw_post_data ranges over 0..MaxBody (0: malformed body)
MaxArg == 1      \* the extra arguments of a call range over 0..MaxArg
MaxQuery == 2    \* a queryset holds at most MaxQuery objects

\* The worker threads: one at a time (Spec), or two at once (ConcurrentSpec).
OneThread == {"t1"}

TwoThreads == {"t1", "t2"}

None == "None"

\* The spellings of request.method the model sends.
Methods == {"GET", "POST", "PUT", "DELETE", "HEAD", "OPTIONS", "get", "put", "Put"}

\* The spellings sent when two calls run at once.
FewMethods == {"GET", "PUT", "HEAD", "put"}

\* An optional argument: left at its default None, or given.
NoArg == [given |-> FALSE, value |-> <<>>]

Arg(v) == [given |-> TRUE, value |-> v]

\* The permitted_methods arguments the constructor is given.
PermittedArgs ==
    { NoArg,
      Arg(<<>>),
      Arg(<<"get", "put">>),
      Arg(<<"POST", "Put", "delete">>),
      Arg(<<"GET", "POST", "PUT", "DELETE", "HEAD">>) }

\* The authentication arguments the constructor is given.
Authentications == {None, "auth"}

\* The subclasses of Resource: the CRUD methods each one overrides.
Subclasses ==
    { {}, {"read", "update"}, {"create", "delete"},
      {"read", "create", "update", "delete"} }

Range(s) == { s[i] : i \in 1..Len(s) }

---------------------------------------------------------------------------
(* Host framework primitives, as far as the code relies on them *)

\* str.upper() on the spellings in use.
Upper(s) ==
    CASE s = "get" -> "GET"
      [] s = "post" -> "POST"
      [] s = "put" -> "PUT"
      [] s = "Put" -> "PUT"
      [] s = "delete" -> "DELETE"
      [] s = "head" -> "HEAD"
      [] OTHER -> s

\* QueryDict(raw_post_data): the parsed form data.
QueryDict(raw) == { <<"field", raw>> }

EmptyQueryDict == {}

\* A multipart body the framework's parser rejects.
Malformed(raw) == raw = 0

\* request._load_post_and_files(): parses the body only of a request that is
\* labelled POST; any other request gets empty POST data.
ParserRaises(req) == req.method = "POST" /\ Malformed(req.raw_post_data)

ParsedPost(req) ==
    IF req.method = "POST" THEN QueryDict(req.raw_post_data) ELSE EmptyQueryDict

\* authentication.is_authenticated(request)
is_authenticated(authentication, req) == req.credentials

\* authentication.challenge()
challenge(authentication) == [kind |-> "challenge", by |-> authentication]

HttpResponseNotAllowed(methods) ==
    [kind |-> "HttpResponseNotAllowed", status_code |-> 405, allow |-> methods]

Http404 == [kind |-> "Http404"]

ParserError == [kind |-> "ParserError"]

NoResult == [kind |-> "none"]

---------------------------------------------------------------------------
(* resource.py *)

\* Resource.__init__ keeping the methods as they were spelled.
ResourceInitAsGiven(authentication, permitted_methods) ==
    [ authentication |-> authentication,
      permitted_methods |->
          IF permitted_methods.given /\ Len(permitted_methods.value) > 0
          THEN permitted_methods.value
          ELSE <<"GET">> ]

\* Resource.__init__
ResourceInit(authentication, permitted_methods) ==
    [ authentication |-> authentication,
      permitted_methods |->
          IF permitted_methods.given /\ Len(permitted_methods.value) > 0
          THEN [i \in 1..Len(permitted_methods.value) |->
                    Upper(permitted_methods.value[i])]
          ELSE <<"GET">> ]

\* The dispatch with the branches of POST and PUT exchanged.
HandlerSwapped(request_method) ==
    CASE request_method = "GET" -> "read"
      [] request_method = "POST" -> "update"
      [] request_method = "PUT" -> "create"
      [] request_method = "DELETE" -> "delete"
      [] OTHER -> None

\* The dispatch of Resource.__call__: the CRUD method a request method is
\* routed to, or None.
Handler(request_method) ==
    CASE request_method = "GET" -> "read"
      [] request_method = "POST" -> "create"
      [] request_method = "PUT" -> "update"
      [] request_method = "DELETE" -> "delete"
      [] OTHER -> None

\* Resource.__call__ with the allow-list check ahead of the permission check.
EntryAllowFirst(self, req) ==
    LET request_method == Upper(req.method) IN
    IF request_method \notin Range(self.permitted_methods)
    THEN [next |-> "done",
          result |-> HttpResponseNotAllowed(self.permitted_methods)]
    ELSE IF self.authentication # None
            /\ ~is_authenticated(self.authentication, req)
    THEN [next |-> "done", result |-> challenge(self.authentication)]
    ELSE IF Handler(request_method) = None
    THEN [next |-> "done", result |-> Http404]
    ELSE IF request_method = "PUT"
    THEN [next |-> "load_put_and_files", result |-> NoResult]
    ELSE [next |-> Handler(request_method), result |-> NoResult]

\* Resource.__call__ up to the point where it hands over: the permission
\* check, the allow-list check and the choice of the branch.  next is where
\* control goes; result is what is returned or raised if the call ends here.
Entry(self, req) ==
    IF self.authentication # None
       /\ ~is_authenticated(self.authentication, req)
    THEN [next |-> "done", result |-> challenge(self.authentication)]
    ELSE LET request_method == Upper(req.method) IN
         IF request_method \notin Range(self.permitted_methods)
         THEN [next |-> "done",
               result |-> HttpResponseNotAllowed(self.permitted_methods)]
         ELSE IF Handler(request_method) = None
         THEN [next |-> "done", result |-> Http404]
         ELSE IF request_method = "PUT"
         THEN [next |-> "load_put_and_files", result |-> NoResult]
         ELSE [next |-> Handler(request_method), result |-> NoResult]

\* Resource.__call__ remembering on the resource that a caller logged in.
SelfAfterCallCached(self, req) ==
    [self EXCEPT !.authentication = IF req.credentials THEN None ELSE @]

\* What Resource.__call__ leaves of the Resource object: it assigns no
\* attribute of self.
SelfAfterCall(self, req) == self

\* CRUD methods whose base-class stubs return nothing instead of raising.
InvokePass(implemented, handler, req, a) ==
    IF handler \in implemented
    THEN [kind |-> "response", from |-> handler, args |-> a,
          method |-> req.method]
    ELSE [kind |-> "response", from |-> None, args |-> a,
          method |-> req.method]

\* The CRUD methods: the base class raises Http404; an overriding subclass
\* answers with a response of its own.
Invoke(implemented, handler, req, a) ==
    IF handler \in implemented
    THEN [kind |-> "response", from |-> handler, args |-> a,
          method |-> req.method]
    ELSE Http404

\* load_put_and_files without the relabelling.
RelabelNot(req) == req

\* load_put_and_files, line 15: the request is relabelled POST.
Relabel(req) == [req EXCEPT !.method = "POST"]

\* load_put_and_files, line 16: the POST parser fills request.POST.
LoadPost(req) == [req EXCEPT !.has_POST = TRUE, !.POST = ParsedPost(req)]

\* load_put_and_files, lines 17-18: request.PUT is bound to request.POST and
\* the label PUT is put back.
AssignPut(req) ==
    [req EXCEPT !.has_PUT = TRUE, !.PUT = req.POST, !.method = "PUT"]

---------------------------------------------------------------------------
(* responder.py *)

\* The model objects a queryset holds.
Elems == {"a", "b"}

Querysets == UNION { [1..n -> Elems] : n \in 0..MaxQuery }

\* django.core.serializers.serialize(format, queryset): the serialized text.
RECURSIVE SerializeObjects(_)
SerializeObjects(queryset) ==
    IF Len(queryset) = 0 THEN ""
    ELSE "<" \o Head(queryset) \o ">" \o SerializeObjects(Tail(queryset))

serialize(format, queryset) == format \o ":" \o SerializeObjects(queryset)

\* HttpResponse(content, mimetype): the status is the framework's default.
HttpResponse(content, mimetype) ==
    [ kind |-> "HttpResponse", content |-> content, mimetype |-> mimetype,
      status_code |-> 200 ]

\* HttpResponse.write
Write(response, text) == [response EXCEPT !.content = @ \o text]

\* '\n'.join(lines)
RECURSIVE Join(_)
Join(lines) ==
    IF Len(lines) = 0 THEN ""
    ELSE IF Len(lines) = 1 THEN lines[1]
    ELSE lines[1] \o "\n" \o Join(Tail(lines))

\* ErrorDict.as_text(): one "* field" line per field, one "  * message" line
\* per message.  An ErrorDict is the sequence of its <<field, messages>> items.
as_text(error_dict) ==
    Join([i \in 1..Len(error_dict) |->
            "* " \o error_dict[i][1] \o "\n" \o
            Join([j \in 1..Len(error_dict[i][2]) |->
                    "  * " \o error_dict[i][2][j]])])

\* The default of error's error_dict parameter.
ErrorDict == <<>>

ErrorDicts ==
    { ErrorDict,
      << <<"name", <<"required">> >> >>,
      << <<"name", <<"required", "too long">> >>, <<"age", <<"not a number">> >> >> }

StatusCodes == {400, 404, 500}

\* SerializeResponder.__init__
SerializeResponder(format, mimetype) == [format |-> format, mimetype |-> mimetype]

\* JSONResponder.__init__
JSONResponder == SerializeResponder("json", "application/json")

\* XMLResponder.__init__
XMLResponder == SerializeResponder("xml", "application/xml")

\* SerializeResponder.render: the one call to the serializer and its output.
render(self, queryset) ==
    [ out |-> serialize(self.format, queryset),
      calls |-> << [call |-> "serializers.serialize", format |-> self.format,
                    queryset |-> queryset] >> ]

\* SerializeResponder.element leaving the mimetype to the framework.
elementDefaultMime(self, elem) ==
    LET r == render(self, <<elem>>) IN
    [response |-> HttpResponse(r.out, None), calls |-> r.calls]

\* SerializeResponder.element
element(self, elem) ==
    LET r == render(self, <<elem>>) IN
    [response |-> HttpResponse(r.out, self.mimetype), calls |-> r.calls]

\* SerializeResponder.list
list(self, queryset) ==
    LET r == render(self, queryset) IN
    [response |-> HttpResponse(r.out, self.mimetype), calls |-> r.calls]

\* SerializeResponder.error testing "is not None" instead of truth.
errorIfGiven(self, status_code, error_dict) ==
    LET errors == IF error_dict.given THEN error_dict.value ELSE ErrorDict
        r0 == HttpResponse("", self.mimetype)
        r1 == Write(r0, "Error " \o ToString(status_code))
        r2 == IF error_dict.given
              THEN Write(Write(r1, "\n\nErrors:\n"), as_text(errors))
              ELSE r1
    IN  [r2 EXCEPT !.status_code = status_code]

\* SerializeResponder.error; error_dict is an optional argument.
error(self, status_code, error_dict) ==
    LET errors == IF error_dict.given THEN error_dict.value ELSE ErrorDict
        r0 == HttpResponse("", self.mimetype)
        r1 == Write(r0, "Error " \o ToString(status_code))
        r2 == IF Len(errors) > 0
              THEN Write(Write(r1, "\n\nErrors:\n"), as_text(errors))
              ELSE r1
    IN  [r2 EXCEPT !.status_code = status_code]

---------------------------------------------------------------------------
(* The requests the framework hands to the resource *)

NewRequest(m, raw, cred) ==
    [ method |-> m, raw_post_data |-> raw, credentials |-> cred,
      has_POST |-> FALSE, POST |-> EmptyQueryDict,
      has_PUT |-> FALSE, PUT |-> EmptyQueryDict ]

Requests ==
    { NewRequest(m, raw, cred) :
          m \in Methods, raw \in 0..MaxBody, cred \in BOOLEAN }

FewRequests ==
    { NewRequest(m, raw, cred) :
          m \in FewMethods, raw \in {0, MaxBody}, cred \in BOOLEAN }

NoRequest == NewRequest("-", 0, FALSE)

Handlers == {"read", "create", "update", "delete"}

---------------------------------------------------------------------------
(* Resource.__call__, step by step *)

Idle(t) == pc[t] \in {"idle", "done"}

\* Lines 41-65 up to the first call out of __call__.
Call(t, reqs, as) ==
    /\ Idle(t)
    /\ \E req \in reqs, a \in as :
         LET e == Entry(resource, req) IN
         /\ op' = [op EXCEPT ![t] =
                       [name |-> "__call__", request |-> req, args |-> a]]
         /\ request' = [request EXCEPT ![t] = req]
         /\ result' = [result EXCEPT ![t] = e.result]
         /\ pc' = [pc EXCEPT ![t] = e.next]
         /\ trace' = [trace EXCEPT ![t] = <<>>]
         /\ resource' = SelfAfterCall(resource, req)
    /\ UNCHANGED <<ctor, responders>>

\* load_put_and_files, lines 14-15.
LoadPutEnter(t) ==
    /\ pc[t] = "load_put_and_files"
    /\ trace' = [trace EXCEPT ![t] =
           Append(@, [call |-> "load_put_and_files", request |-> request[t]])]
    /\ IF request[t].method = "PUT"
       THEN /\ request' = [request EXCEPT ![t] = Relabel(@)]
            /\ pc' = [pc EXCEPT ![t] = "_load_post_and_files"]
       ELSE /\ pc' = [pc EXCEPT ![t] = "update"]
            /\ UNCHANGED request
    /\ UNCHANGED <<ctor, resource, responders, op, result>>

\* load_put_and_files, line 16: the parser runs, and may raise.
LoadPostAndFiles(t) ==
    /\ pc[t] = "_load_post_and_files"
    /\ trace' = [trace EXCEPT ![t] =
           Append(@, [call |-> "_load_post_and_files", request |-> request[t]])]
    /\ IF ParserRaises(request[t])
       THEN /\ result' = [result EXCEPT ![t] = ParserError]
            /\ pc' = [pc EXCEPT ![t] = "done"]
            /\ UNCHANGED request
       ELSE /\ request' = [request EXCEPT ![t] = LoadPost(@)]
            /\ pc' = [pc EXCEPT ![t] = "put_assign"]
            /\ UNCHANGED result
    /\ UNCHANGED <<ctor, resource, responders, op>>

\* load_put_and_files, lines 17-18, and the return to __call__.
LoadPutExit(t) ==
    /\ pc[t] = "put_assign"
    /\ request' = [request EXCEPT ![t] = AssignPut(@)]
    /\ pc' = [pc EXCEPT ![t] = "update"]
    /\ UNCHANGED <<ctor, resource, responders, op, result, trace>>

\* Lines 56, 58, 61, 63: the CRUD method runs and __call__ returns what it
\* returns (or lets its exception pass).
RunHandler(t) ==
    /\ pc[t] \in Handlers
    /\ LET out == Invoke(ctor.cls, pc[t], request[t], op[t].args) IN
         /\ trace' = [trace EXCEPT ![t] =
                Append(@, [call |-> pc[t], request |-> request[t],
                           args |-> op[t].args, returned |-> out])]
         /\ result' = [result EXCEPT ![t] = out]
    /\ pc' = [pc EXCEPT ![t] = "done"]
    /\ UNCHANGED <<ctor, resource, responders, op, request>>

---------------------------------------------------------------------------
(* The responder methods, each one step *)

Element(t, rs) ==
    /\ Idle(t)
    /\ \E r \in rs, e \in Elems :
         LET o == element(responders[r], e) IN
         /\ op' = [op EXCEPT ![t] =
                       [name |-> "element", responder |-> r, elem |-> e]]
         /\ result' = [result EXCEPT ![t] = o.response]
         /\ trace' = [trace EXCEPT ![t] = o.calls]
    /\ pc' = [pc EXCEPT ![t] = "done"]
    /\ request' = [request EXCEPT ![t] = NoRequest]
    /\ UNCHANGED <<ctor, resource, responders>>

List(t, rs, qs) ==
    /\ Idle(t)
    /\ \E r \in rs, q \in qs :
         LET o == list(responders[r], q) IN
         /\ op' = [op EXCEPT ![t] =
                       [name |-> "list", responder |-> r, queryset |-> q]]
         /\ result' = [result EXCEPT ![t] = o.response]
         /\ trace' = [trace EXCEPT ![t] = o.calls]
    /\ pc' = [pc EXCEPT ![t] = "done"]
    /\ request' = [request EXCEPT ![t] = NoRequest]
    /\ UNCHANGED <<ctor, resource, responders>>

Error(t, rs, ds) ==
    /\ Idle(t)
    /\ \E r \in rs, status_code \in StatusCodes,
          error_dict \in {NoArg} \cup { Arg(d) : d \in ds } :
         /\ op' = [op EXCEPT ![t] =
                       [name |-> "error", responder |-> r,
                        status_code |-> status_code,
                        error_dict |-> error_dict]]
         /\ result' = [result EXCEPT ![t] =
                           error(responders[r], status_code, error_dict)]
    /\ trace' = [trace EXCEPT ![t] = <<>>]
    /\ pc' = [pc EXCEPT ![t] = "done"]
    /\ request' = [request EXCEPT ![t] = NoRequest]
    /\ UNCHANGED <<ctor, resource, responders>>

---------------------------------------------------------------------------
(* The specifications *)

\* The responders a deployment instantiates.
Responders ==
    [ json |-> JSONResponder, xml |-> XMLResponder,
      python |-> SerializeResponder("python", None) ]

InitOver(threads) ==
    /\ ctor \in [ authentication : Authentications,
                  permitted_methods : PermittedArgs,
                  cls : Subclasses ]
    /\ resource = ResourceInit(ctor.authentication, ctor.permitted_methods)
    /\ responders = Responders
    /\ pc = [t \in threads |-> "idle"]
    /\ op = [t \in threads |-> [name |-> "-"]]
    /\ request = [t \in threads |-> NoRequest]
    /\ result = [t \in threads |-> NoResult]
    /\ trace = [t \in threads |-> <<>>]

\* One operation at a time, over the full range of inputs.
Init == InitOver(OneThread)

Next ==
    \E t \in OneThread :
        \/ Call(t, Requests, 0..MaxArg)
        \/ LoadPutEnter(t)
        \/ LoadPostAndFiles(t)
        \/ LoadPutExit(t)
        \/ RunHandler(t)
        \/ Element(t, DOMAIN Responders)
        \/ List(t, DOMAIN Responders, Querysets)
        \/ Error(t, DOMAIN Responders, ErrorDicts)

Spec == Init /\ [][Next]_vars

\* Two operations at once, interleaved step by step.
ConcurrentInit == InitOver(TwoThreads)

ConcurrentNext ==
    \E t \in TwoThreads :
        \/ Call(t, FewRequests, {MaxArg})
        \/ LoadPutEnter(t)
        \/ LoadPostAndFiles(t)
        \/ LoadPutExit(t)
        \/ RunHandler(t)
        \/ Element(t, {"json"})
        \/ List(t, {"xml"}, {<<>>})
        \/ Error(t, {"json", "python"}, {ErrorDict})

ConcurrentSpec == ConcurrentInit /\ [][ConcurrentNext]_vars

---------------------------------------------------------------------------
(* Vocabulary of the properties *)

Running == DOMAIN pc

IsCall(t) == op[t].name = "__call__"

CallDone(t) == IsCall(t) /\ pc[t] = "done"

\* The request passes the permission check of the resource as constructed.
PassesAuth(t) ==
    ctor.authentication = None
    \/ is_authenticated(ctor.authentication, op[t].request)

\* The upper-cased request method is on the allow-list.
Allowed(t) == Upper(op[t].request.method) \in Range(resource.permitted_methods)

\* The calls of the given names a thread's operation has made so far.
Made(t, names) == { i \in 1..Len(trace[t]) : trace[t][i].call \in names }

\* The dispatch the interface promises: HTTP method to CRUD operation.
Crud == [GET |-> "read", POST |-> "create", PUT |-> "update", DELETE |-> "delete"]

\* The request as the caller handed it over.
SameRequest(r, r0) ==
    /\ r.method = r0.method
    /\ r.raw_post_data = r0.raw_post_data
    /\ r.credentials = r0.credentials

---------------------------------------------------------------------------
(* C1 *)

\* C1: with an authentication object configured, a call whose request is not
\* authenticated returns exactly authentication.challenge(), whatever the
\* request method, and invokes no CRUD method and no PUT body parsing.
C1_ChallengeFirst ==
    \A t \in Running :
        ( /\ IsCall(t)
          /\ ctor.authentication # None
          /\ ~is_authenticated(ctor.authentication, op[t].request) )
        => /\ pc[t] = "done"
           /\ result[t] = challenge(ctor.authentication)
           /\ trace[t] = <<>>

\* An unauthenticated request with a method that is not permitted was answered.
C1_Witness ==
    \E t \in Running :
        /\ CallDone(t)
        /\ ctor.authentication # None
        /\ ~op[t].request.credentials
        /\ ~Allowed(t)
        /\ result[t].kind = "challenge"

---------------------------------------------------------------------------
(* C2 *)

\* C2: permitted_methods is the upper-cased list given to the constructor, or
\* ["GET"] when none or an empty one was given; a request that passes the
\* permission check with a method off that list gets a 405 listing exactly
\* permitted_methods, and no CRUD method and no PUT body parsing is invoked.
C2_NotAllowed ==
    /\ LET given == ctor.permitted_methods IN
       IF given.given /\ given.value # <<>>
       THEN /\ Len(resource.permitted_methods) = Len(given.value)
            /\ \A i \in 1..Len(given.value) :
                   resource.permitted_methods[i] = Upper(given.value[i])
       ELSE resource.permitted_methods = <<"GET">>
    /\ \A t \in Running :
        (IsCall(t) /\ PassesAuth(t) /\ ~Allowed(t))
        => /\ pc[t] = "done"
           /\ result[t].kind = "HttpResponseNotAllowed"
           /\ result[t].status_code = 405
           /\ result[t].allow = resource.permitted_methods
           /\ trace[t] = <<>>

\* A lower-case list was given, and an authenticated request off the list
\* got its 405.
C2_Witness ==
    \E t \in Running :
        /\ CallDone(t)
        /\ ctor.permitted_methods = Arg(<<"get", "put">>)
        /\ ctor.authentication # None
        /\ op[t].request.credentials
        /\ op[t].request.method = "POST"
        /\ result[t].kind = "HttpResponseNotAllowed"

---------------------------------------------------------------------------
(* C3 *)

\* The one CRUD method invoked is the one the table names, it got the
\* caller's request and arguments, and its return value is the call's.
ExactlyOneHandler(t) ==
    LET made == Made(t, Handlers) IN
    /\ Cardinality(made) = 1
    /\ \A i \in made :
        /\ Upper(op[t].request.method) \in DOMAIN Crud
        /\ trace[t][i].call = Crud[Upper(op[t].request.method)]
        /\ SameRequest(trace[t][i].request, op[t].request)
        /\ trace[t][i].args = op[t].args
        /\ result[t] = trace[t][i].returned

\* C3 as stated: every finished call that passed the permission and
\* allow-list checks invoked exactly one CRUD method, chosen by the
\* upper-cased method (GET read, POST create, PUT update, DELETE delete),
\* with the same request and arguments, and returned its return value.
C3_AsStated ==
    \A t \in Running :
        (CallDone(t) /\ PassesAuth(t) /\ Allowed(t)) => ExactlyOneHandler(t)

\* C3: the same for the calls whose upper-cased method is one of GET, POST,
\* PUT and DELETE and whose PUT body, if any is parsed, the parser accepts.
C3_Dispatch ==
    \A t \in Running :
        ( /\ CallDone(t) /\ PassesAuth(t) /\ Allowed(t)
          /\ Upper(op[t].request.method) \in DOMAIN Crud
          /\ result[t] # ParserError )
        => ExactlyOneHandler(t)

\* An overridden update answered a PUT request that carried arguments.
C3_Witness ==
    \E t \in Running :
        /\ CallDone(t)
        /\ op[t].request.method = "PUT"
        /\ op[t].args = MaxArg
        /\ result[t].kind = "response"
        /\ result[t].from = "update"

---------------------------------------------------------------------------
(* C4 *)

\* The operation is unimplemented (its CRUD method is not overridden) or
\* unsupported (the method is permitted but has no CRUD method).
Unimplemented(t) ==
    /\ Upper(op[t].request.method) \in DOMAIN Crud
    /\ Crud[Upper(op[t].request.method)] \notin ctor.cls

Unsupported(t) == Upper(op[t].request.method) \notin DOMAIN Crud

---------------------------------------------------------------------------
(* C5, C9, C10: load_put_and_files *)

InShim(t) == IsCall(t) /\ Made(t, {"load_put_and_files"}) # {}

\* load_put_and_files has returned to __call__.
ShimReturned(t) ==
    /\ InShim(t)
    /\ pc[t] \in {"update", "done"}
    /\ result[t] # ParserError

\* load_put_and_files is over, by return or by exception.
ShimOver(t) == InShim(t) /\ pc[t] \in {"update", "done"}

\* C5: on a request whose method is 'PUT', load_put_and_files runs the POST
\* parser exactly once, while the request reads 'POST', and on return
\* request.PUT is the parsed POST data and request.method is 'PUT' again; on
\* any other request it runs no parser and leaves method, POST and the absent
\* PUT as they were.
C5_Shim ==
    \A t \in Running :
        InShim(t) =>
            LET parses == Made(t, {"_load_post_and_files"}) IN
            IF op[t].request.method = "PUT"
            THEN /\ Cardinality(parses) <= 1
                 /\ \A i \in parses : trace[t][i].request.method = "POST"
                 /\ ShimReturned(t) =>
                      /\ Cardinality(parses) = 1
                      /\ request[t].has_PUT
                      /\ request[t].PUT = request[t].POST
                      /\ request[t].PUT = QueryDict(op[t].request.raw_post_data)
                      /\ request[t].method = "PUT"
            ELSE /\ parses = {}
                 /\ request[t] = op[t].request
                 /\ ~request[t].has_PUT

\* The shim returned on a PUT request with a body, and on a request spelled
\* 'put' it had nothing to do.
C5_Witness ==
    \E t \in Running :
        /\ ShimReturned(t)
        /\ op[t].request.method = "PUT"
        /\ op[t].request.raw_post_data = MaxBody
        /\ request[t].PUT = QueryDict(MaxBody)

\* C9: whenever update is invoked, request.PUT is populated with the parsed
\* body, in whatever letter case request.method spells PUT.
C9_PutParsedBeforeUpdate ==
    \A t \in Running :
        \A i \in Made(t, {"update"}) :
            /\ trace[t][i].request.has_PUT
            /\ trace[t][i].request.PUT = QueryDict(op[t].request.raw_post_data)

\* C10: for a request whose method is 'PUT' on entry, request.method is 'PUT'
\* again when load_put_and_files is over, also when the parser raised.
C10_RelabelIsTemporary ==
    \A t \in Running :
        (ShimOver(t) /\ op[t].request.method = "PUT")
        => request[t].method = "PUT"

---------------------------------------------------------------------------
(* C6, C7: the responders *)

Did(t, name) == op[t].name = name /\ pc[t] = "done"

\* C6: error(status_code, error_dict) answers with the given status code and
\* the responder's mimetype; the body is 'Error <status_code>', followed by
\* '\n\nErrors:\n' and the text of error_dict exactly when error_dict is not
\* empty.
C6_Error ==
    \A t \in Running :
        Did(t, "error") =>
            LET self == responders[op[t].responder]
                title == "Error " \o ToString(op[t].status_code)
                errors == op[t].error_dict.value
            IN  /\ result[t].status_code = op[t].status_code
                /\ result[t].mimetype = self.mimetype
                /\ Len(result[t].content) >= Len(title)
                /\ SubSeq(result[t].content, 1, Len(title)) = title
                /\ (errors = <<>>) <=> (result[t].content = title)
                /\ (errors # <<>>) =>
                      result[t].content =
                          title \o "\n\nErrors:\n" \o as_text(errors)

\* error was called with an error_dict that was given and is empty.
C6_Witness ==
    \E t \in Running :
        /\ Did(t, "error")
        /\ op[t].error_dict = Arg(<<>>)
        /\ op[t].status_code = 404
        /\ result[t].content = "Error 404"

\* C7: JSONResponder is json / application/json, XMLResponder xml /
\* application/xml; list and element each make one serializer call with the
\* responder's format and wrap its output with the responder's mimetype and
\* status 200; element(elem) answers as list([elem]) does.
C7_Render ==
    /\ responders.json = [format |-> "json", mimetype |-> "application/json"]
    /\ responders.xml = [format |-> "xml", mimetype |-> "application/xml"]
    /\ \A t \in Running :
        (Did(t, "element") \/ Did(t, "list")) =>
            LET self == responders[op[t].responder]
                queryset == IF op[t].name = "element" THEN <<op[t].elem>>
                            ELSE op[t].queryset
            IN  /\ Len(trace[t]) = 1
                /\ trace[t][1].call = "serializers.serialize"
                /\ trace[t][1].format = self.format
                /\ trace[t][1].queryset = queryset
                /\ result[t].content = serialize(self.format, queryset)
                /\ result[t].mimetype = self.mimetype
                /\ result[t].status_code = 200
                /\ op[t].name = "element" =>
                      result[t] = list(self, <<op[t].elem>>).response

\* The JSON responder rendered one element.
C7_Witness ==
    \E t \in Running :
        /\ Did(t, "element")
        /\ op[t].responder = "json"
        /\ result[t].content = "json:<a>"

---------------------------------------------------------------------------
(* C8 *)

\* A whole call on a resource constructed from the given arguments, as a
\* function of the call's own request and arguments.
OutcomeOf(construction, req, a) ==
    LET self == [ authentication |-> construction.authentication,
                  permitted_methods |->
                      IF construction.permitted_methods.given
                         /\ construction.permitted_methods.value # <<>>
                      THEN [i \in 1..Len(construction.permitted_methods.value)
                              |-> Upper(construction.permitted_methods.value[i])]
                      ELSE <<"GET">> ]
        e == Entry(self, req)
    IN  IF e.next = "done" THEN e.result
        ELSE IF e.next # "load_put_and_files"
        THEN Invoke(construction.cls, e.next, req, a)
        ELSE IF req.method # "PUT"
        THEN Invoke(construction.cls, "update", req, a)
        ELSE IF ParserRaises(Relabel(req)) THEN ParserError
        ELSE Invoke(construction.cls, "update",
                    AssignPut(LoadPost(Relabel(req))), a)

\* C8: whatever calls ran or are running, the resource holds the
\* authentication and permitted_methods its constructor set, every finished
\* call's outcome is the one its own request and arguments determine, and the
\* responders keep their format and mimetype.
C8_NoSharedState ==
    /\ resource.authentication = ctor.authentication
    /\ resource.permitted_methods =
           IF ctor.permitted_methods.given /\ ctor.permitted_methods.value # <<>>
           THEN [i \in 1..Len(ctor.permitted_methods.value) |->
                    Upper(ctor.permitted_methods.value[i])]
           ELSE <<"GET">>
    /\ responders = Responders
    /\ \A t \in Running :
        CallDone(t) => result[t] = OutcomeOf(ctor, op[t].request, op[t].args)

\* One call ended in a 405 while another was inside load_put_and_files, on a
\* resource that had already answered an authenticated request.
C8_Witness ==
    \E t, u \in Running :
        /\ t # u
        /\ CallDone(t)
        /\ ctor.authentication # None
        /\ op[t].request.credentials
        /\ result[t].kind = "HttpResponseNotAllowed"
        /\ IsCall(u)
        /\ pc[u] = "_load_post_and_files"

====
